---- MODULE Spec2Model ----
(***************************************************************************)
(* Model of distaff's HashEvaluator                                        *)
(* (src/src/stark/constraints/stack/hashing.rs): the transition            *)
(* constraints of one round of the modified Rescue permutation, evaluated  *)
(* either at a step of the extended domain (evaluate) or at an arbitrary   *)
(* field point (evaluate_at), and added into a caller-owned accumulator.   *)
(*                                                                         *)
(* The evaluator's own code is translated line by line.  The crate items  *)
(* it imports (field, polynom, hasher, the width and cycle constants) are  *)
(* outside the file; they are modelled from their documented behaviour    *)
(* over a small prime field with the same algebraic structure: a prime    *)
(* with p - 1 coprime to the S-box exponent and a large power-of-two      *)
(* subgroup for the evaluation domains.                                    *)
(*                                                                         *)
(* Slices are sequences: source index i is sequence index i + 1.           *)
(***************************************************************************)
EXTENDS Integers, Sequences, FiniteSets, TLC

\* ------------------------------------------------------------------------
\* Imported configuration (crate constants, scaled down)
\* ------------------------------------------------------------------------
HASH_STATE_WIDTH == 2

HASH_CYCLE_LENGTH == 2

NUM_AUX_CONSTRAINTS == 2

\* field modulus: a prime with M - 1 = 2^8 and gcd(ALPHA, M - 1) = 1
M == 257

\* generator of the multiplicative group of the field
G == 3

ZERO == 0

\* S-box exponent and its inverse modulo M - 1 (3 * 171 = 2 * 256 + 1)
ALPHA == 3

INV_ALPHA == 171

\* ------------------------------------------------------------------------
\* Bounds of the model
\* ------------------------------------------------------------------------
\* steps passed to evaluate range over 0..MaxStep
MaxStep == 7

\* a next row differs from the genuine image by a delta in 1..MaxDelta
MaxDelta == 1

\* rows hold up to HASH_STATE_WIDTH + MaxAux registers
MaxAux == 1

\* ------------------------------------------------------------------------
\* Helpers
\* ------------------------------------------------------------------------
Min(a, b) == IF a < b THEN a ELSE b

RECURSIVE SumTo(_, _)
\* f[1] + ... + f[n] for a sequence of integers
SumTo(f, n) == IF n = 0 THEN 0 ELSE f[n] + SumTo(f, n - 1)

\* ------------------------------------------------------------------------
\* crate::math::field
\* ------------------------------------------------------------------------
add(a, b) == (a + b) % M

sub(a, b) == IF a < b THEN M - b + a ELSE a - b

mul(a, b) == (a * b) % M

RECURSIVE exp(_, _)
exp(b, p) ==
    IF p = 0 THEN 1
    ELSE IF p % 2 = 1 THEN mul(b, exp(b, p - 1))
    ELSE exp(mul(b, b), p \div 2)

inv(a) == exp(a, M - 2)

get_root_of_unity(order) == exp(G, (M - 1) \div order)

\* ------------------------------------------------------------------------
\* crate::math::polynom
\* ------------------------------------------------------------------------
RECURSIVE eval_from(_, _, _)
\* p[k] + x * (p[k+1] + x * (...)): the value of the polynomial with the
\* coefficients p[k..] at x
eval_from(p, x, k) ==
    IF k > Len(p) THEN ZERO
    ELSE add(p[k], mul(x, eval_from(p, x, k + 1)))

eval(p, x) == eval_from(p, x, 1)

\* coefficients of the polynomial of degree < Len(values) that takes the
\* value values[i+1] at root^i (inverse discrete Fourier transform)
interpolate(values, root) ==
    LET n == Len(values)
        term(k) == [i \in 1..n |->
                       mul(values[i], exp(inv(root), (i - 1) * (k - 1)))]
    IN  [k \in 1..n |-> mul(inv(n), SumTo(term(k), n) % M)]

\* ------------------------------------------------------------------------
\* crate::utils::hasher
\* ------------------------------------------------------------------------
\* round constants: 2 * HASH_STATE_WIDTH columns of HASH_CYCLE_LENGTH values
ARK == << <<3, 7>>, <<11, 5>>, <<2, 13>>, <<9, 4>> >>

\* an MDS matrix (every square submatrix is invertible) and its inverse
MDS == << <<2, 1>>, <<1, 1>> >>

INV_MDS == << <<1, 256>>, <<256, 2>> >>

apply_matrix(mat, state) ==
    [i \in 1..Len(state) |->
        SumTo([j \in 1..Len(state) |-> mul(mat[i][j], state[j])],
              Len(state)) % M]

apply_sbox(state) == [i \in 1..Len(state) |-> exp(state[i], ALPHA)]

apply_inv_sbox(state) == [i \in 1..Len(state) |-> exp(state[i], INV_ALPHA)]

apply_mds(state) == apply_matrix(MDS, state)

apply_inv_mds(state) == apply_matrix(INV_MDS, state)

\* one round of the permutation under the constants ark (forward part
\* ark[0..W), backward part ark[W..2W))
apply_round(state, ark) ==
    LET W  == HASH_STATE_WIDTH
        s1 == [i \in 1..W |-> add(state[i], ark[i])]
        s2 == apply_mds(apply_sbox(s1))
        s3 == [i \in 1..W |-> add(s2[i], ark[W + i])]
    IN  apply_mds(apply_inv_sbox(s3))

\* <<ark_polys, ark_evaluations>>: the constant columns interpolated over
\* the cycle domain and evaluated over the extended cycle domain
get_extended_constants(extension_factor) ==
    LET root        == get_root_of_unity(HASH_CYCLE_LENGTH)
        domain_size == HASH_CYCLE_LENGTH * extension_factor
        domain_root == get_root_of_unity(domain_size)
        poly(j)     == [k \in 1..domain_size |->
                           IF k <= HASH_CYCLE_LENGTH
                           THEN interpolate(ARK[j], root)[k] ELSE ZERO]
        polys       == [j \in 1..Len(ARK) |-> poly(j)]
        evals       == [j \in 1..Len(ARK) |->
                           [i \in 1..domain_size |->
                               eval(polys[j], exp(domain_root, i - 1))]]
    IN  <<polys, evals>>

\* ------------------------------------------------------------------------
\* HashEvaluator
\* ------------------------------------------------------------------------
\* HashEvaluator::new from the second statement on; constants is what
\* hasher::get_extended_constants returned.  An index past the end of
\* ark_evaluations or of one of its columns panics.
new(trace_length, extension_factor, constants) ==
    LET ark_polys       == constants[1]
        ark_evaluations == constants[2]
        cycle_length    == HASH_CYCLE_LENGTH * extension_factor
        in_bounds       ==
            \A i \in 1..cycle_length : \A j \in 1..(2 * HASH_STATE_WIDTH) :
                j <= Len(ark_evaluations) /\ i <= Len(ark_evaluations[j])
    IN  IF ~in_bounds
        THEN [ok |-> FALSE, trace_length |-> 0, cycle_length |-> 0,
              ark_values |-> <<>>, ark_polys |-> <<>>]
        ELSE [ok           |-> TRUE,
              trace_length |-> trace_length,
              cycle_length |-> cycle_length,
              ark_values   |-> [i \in 1..cycle_length |->
                                   [j \in 1..(2 * HASH_STATE_WIDTH) |->
                                       ark_evaluations[j][i]]],
              ark_polys    |-> ark_polys]

\* evaluate with the step clamped to the table instead of reduced modulo
\* its length
fast_ark_clamped(self, step) ==
    self.ark_values[Min(step, self.cycle_length - 1) + 1]

\* evaluate, lines 40-43: the round constants of the step
fast_ark(self, step) == self.ark_values[(step % self.cycle_length) + 1]

\* evaluate_at raising x to the trace length instead of the number of
\* cycles in the trace
slow_ark_trace_length(self, x) ==
    LET xp == exp(x, self.trace_length)
    IN  [i \in 1..(2 * HASH_STATE_WIDTH) |-> eval(self.ark_polys[i], xp)]

\* evaluate_at, lines 56-61: the round constants at the point x
slow_ark(self, x) ==
    LET num_cycles == self.trace_length \div HASH_CYCLE_LENGTH
        xp         == exp(x, num_cycles)
    IN  [i \in 1..(2 * HASH_STATE_WIDTH) |-> eval(self.ark_polys[i], xp)]

\* eval_hash, lines 72-87 and 90: state_part2[i] - state_part1[i] at each
\* position of the hash state
hash_evaluations(current, next, ark) ==
    LET W  == HASH_STATE_WIDTH
        p1 == [i \in 1..W |-> add(current[i], ark[i])]
        state_part1 == apply_mds(apply_sbox(p1))
        p2 == apply_sbox(apply_inv_mds(SubSeq(next, 1, W)))
        state_part2 == [i \in 1..W |-> sub(p2[i], ark[W + i])]
    IN  [i \in 1..W |-> sub(state_part2[i], state_part1[i])]

\* eval_hash without the inverse MDS step on the next row
eval_hash_no_inv_mds(current, next, ark, op_flag, result) ==
    IF Len(current) < HASH_STATE_WIDTH \/ Len(next) < HASH_STATE_WIDTH
    THEN [ok |-> FALSE, result |-> result]
    ELSE
    LET W  == HASH_STATE_WIDTH
        p1 == [i \in 1..W |-> add(current[i], ark[i])]
        state_part1 == apply_mds(apply_sbox(p1))
        p2 == apply_sbox(SubSeq(next, 1, W))
        state_part2 == [i \in 1..W |-> sub(p2[i], ark[W + i])]
        n  == Min(Len(result), W)
    IN  [ok     |-> TRUE,
         result |-> [i \in 1..Len(result) |->
                        IF i <= n
                        THEN add(result[i],
                                 mul(sub(state_part2[i], state_part1[i]),
                                     op_flag))
                        ELSE result[i]]]

\* eval_hash storing the constraint values instead of adding them
eval_hash_overwrite(current, next, ark, op_flag, result) ==
    IF Len(current) < HASH_STATE_WIDTH \/ Len(next) < HASH_STATE_WIDTH
    THEN [ok |-> FALSE, result |-> result]
    ELSE
    LET evaluation == hash_evaluations(current, next, ark)
        n == Min(Len(result), HASH_STATE_WIDTH)
    IN  [ok     |-> TRUE,
         result |-> [i \in 1..Len(result) |->
                        IF i <= n THEN mul(evaluation[i], op_flag)
                        ELSE result[i]]]

\* eval_hash with its last loop stopping one position early
eval_hash_short(current, next, ark, op_flag, result) ==
    IF Len(current) < HASH_STATE_WIDTH \/ Len(next) < HASH_STATE_WIDTH
    THEN [ok |-> FALSE, result |-> result]
    ELSE
    LET evaluation == hash_evaluations(current, next, ark)
        n == Min(Len(result), HASH_STATE_WIDTH) - 1
    IN  [ok     |-> TRUE,
         result |-> [i \in 1..Len(result) |->
                        IF i <= n
                        THEN add(result[i], mul(evaluation[i], op_flag))
                        ELSE result[i]]]

\* eval_hash on the accumulator region result; [ok, result], ok = FALSE
\* when slicing a row to the hash-state width panics
eval_hash(current, next, ark, op_flag, result) ==
    IF Len(current) < HASH_STATE_WIDTH \/ Len(next) < HASH_STATE_WIDTH
    THEN [ok |-> FALSE, result |-> result]
    ELSE
    LET evaluation == hash_evaluations(current, next, ark)
        n == Min(Len(result), HASH_STATE_WIDTH)
    IN  [ok     |-> TRUE,
         result |-> [i \in 1..Len(result) |->
                        IF i <= n
                        THEN add(result[i], mul(evaluation[i], op_flag))
                        ELSE result[i]]]

RECURSIVE eval_rest_from(_, _, _, _, _)
\* the loop of eval_rest from source index i on; reading next[i] or
\* current[i] past the end of the row panics with the earlier writes made
eval_rest_from(current, next, op_flag, result, i) ==
    IF i >= Len(result) THEN [ok |-> TRUE, result |-> result]
    ELSE IF i >= Len(next) \/ i >= Len(current)
    THEN [ok |-> FALSE, result |-> result]
    ELSE eval_rest_from(current, next, op_flag,
             [result EXCEPT ![i + 1] =
                 add(@, mul(sub(next[i + 1], current[i + 1]), op_flag))],
             i + 1)

\* eval_rest adding next - current without the selector flag
eval_rest_unflagged(current, next, op_flag, result) ==
    eval_rest_from(current, next, 1, result, HASH_STATE_WIDTH)

\* eval_rest subtracting next from current
eval_rest_swapped(current, next, op_flag, result) ==
    eval_rest_from(next, current, op_flag, result, HASH_STATE_WIDTH)

eval_rest(current, next, op_flag, result) ==
    eval_rest_from(current, next, op_flag, result, HASH_STATE_WIDTH)

\* the two calls on result[NUM_AUX_CONSTRAINTS..] that end evaluate and
\* evaluate_at; taking the slice of a shorter accumulator panics
eval_both(current, next, ark, op_flag, result) ==
    IF Len(result) < NUM_AUX_CONSTRAINTS
    THEN [ok |-> FALSE, result |-> result]
    ELSE
    LET head == SubSeq(result, 1, NUM_AUX_CONSTRAINTS)
        tail == SubSeq(result, NUM_AUX_CONSTRAINTS + 1, Len(result))
        h    == eval_hash(current, next, ark, op_flag, tail)
        r    == IF h.ok THEN eval_rest(current, next, op_flag, h.result)
                ELSE h
    IN  [ok |-> r.ok, result |-> head \o r.result]

evaluate(self, current, next, step, op_flag, result) ==
    eval_both(current, next, fast_ark(self, step), op_flag, result)

evaluate_at(self, current, next, x, op_flag, result) ==
    eval_both(current, next, slow_ark(self, x), op_flag, result)

\* ------------------------------------------------------------------------
\* Inputs
\* ------------------------------------------------------------------------
ExtensionFactors == {1, 2}

\* trace lengths: whole numbers of hash cycles, and one that is not
TraceLengths ==
    {HASH_CYCLE_LENGTH, 2 * HASH_CYCLE_LENGTH, HASH_CYCLE_LENGTH + 1}

\* what the collaborator may hand to new: the constants of the extension
\* factor, and the same tables with a column or a row more or fewer
ConstantTables(extension_factor) ==
    LET c     == get_extended_constants(extension_factor)
        polys == c[1]
        evals == c[2]
        n     == Len(evals[1])
    IN  { c,
          <<polys, Append(evals, evals[1])>>,
          <<polys, SubSeq(evals, 1, Len(evals) - 1)>>,
          <<polys, [j \in 1..Len(evals) |-> Append(evals[j], ZERO)]>>,
          <<polys, [j \in 1..Len(evals) |-> SubSeq(evals[j], 1, n - 1)]>> }

OpFlags == {0, 1, 2}

RowLengths == (HASH_STATE_WIDTH - 1)..(HASH_STATE_WIDTH + MaxAux)

\* hash states of the current row
HashStates == { <<0, 0>>, <<1, 2>> }

\* current rows: a hash state (or, for a row too short, its beginning)
\* followed by auxiliary registers
CurrentRows ==
    { [i \in 1..n |-> IF i <= HASH_STATE_WIDTH THEN h[i] ELSE 10 + i] :
        h \in HashStates, n \in RowLengths }

\* the row that follows current in a correct trace under the constants ark
GenuineNext(current, ark) ==
    IF Len(current) < HASH_STATE_WIDTH THEN current
    ELSE apply_round(SubSeq(current, 1, HASH_STATE_WIDTH), ark)
           \o SubSeq(current, HASH_STATE_WIDTH + 1, Len(current))

\* next rows: the genuine one, the genuine one with one entry changed or
\* with a hash-state entry and an auxiliary register changed, and the
\* genuine one with a register fewer or more
NextRows(current, ark) ==
    LET g == GenuineNext(current, ark)
    IN  {g}
        \cup { [g EXCEPT ![k] = add(@, d)] :
                 k \in 1..Len(g), d \in 1..MaxDelta }
        \cup { [g EXCEPT ![k] = add(@, d), ![a] = add(@, d)] :
                 k \in 1..Min(Len(g), HASH_STATE_WIDTH),
                 a \in (HASH_STATE_WIDTH + 1)..Len(g), d \in 1..MaxDelta }
        \cup { SubSeq(g, 1, Len(g) - 1), Append(g, ZERO) }

AccSeeds == {0, 200}

AccLengths ==
    (NUM_AUX_CONSTRAINTS - 1)..(NUM_AUX_CONSTRAINTS + HASH_STATE_WIDTH + MaxAux)

\* accumulators as other evaluators left them
Accumulators ==
    { [i \in 1..n |-> (s * i) % M] : n \in AccLengths, s \in AccSeeds }

Steps(cycle_length) == 0..Min(MaxStep, 2 * cycle_length - 1)

\* the point of the extended trace domain at step s
XOfStep(e, s) ==
    exp(get_root_of_unity(
            e.trace_length * (e.cycle_length \div HASH_CYCLE_LENGTH)), s)

\* points passed to evaluate_at: the points of the extended trace domain
\* when the field has such a domain, and points outside it
XPoints(e) ==
    LET size == e.trace_length * (e.cycle_length \div HASH_CYCLE_LENGTH)
    IN  (IF (M - 1) % size = 0
         THEN {XOfStep(e, s) : s \in Steps(e.cycle_length)} ELSE {})
        \cup {2, 5}

\* ------------------------------------------------------------------------
\* State
\* ------------------------------------------------------------------------
VARIABLES
    pc,         \* "start", "constructing", "ready", "returned", "aborted"
    args,       \* new's arguments
    constants,  \* new's local: what get_extended_constants returned
    self,       \* the evaluator
    call        \* the last call of evaluate / evaluate_at and its outcome

vars == <<pc, args, constants, self, call>>

NoArgs == [trace_length |-> 0, extension_factor |-> 0]

NoSelf == [ok |-> FALSE, trace_length |-> 0, cycle_length |-> 0,
           ark_values |-> <<>>, ark_polys |-> <<>>]

NoCall == [op |-> "none", current |-> <<>>, next |-> <<>>, pos |-> 0,
           op_flag |-> 0, before |-> <<>>, ark |-> <<>>, ok |-> TRUE,
           result |-> <<>>]

Init ==
    /\ pc = "start"
    /\ args = NoArgs
    /\ constants = <<>>
    /\ self = NoSelf
    /\ call = NoCall

\* new, line 22: the call of hasher::get_extended_constants
GetExtendedConstants ==
    /\ pc = "start"
    /\ \E trace_length \in TraceLengths, extension_factor \in ExtensionFactors :
         \E c \in ConstantTables(extension_factor) :
            /\ args' = [trace_length |-> trace_length,
                        extension_factor |-> extension_factor]
            /\ constants' = c
    /\ pc' = "constructing"
    /\ UNCHANGED <<self, call>>

\* new, lines 26-35: the transposition, and the return of the evaluator
New ==
    /\ pc = "constructing"
    /\ LET e == new(args.trace_length, args.extension_factor, constants)
       IN  /\ self' = e
           /\ pc' = IF e.ok THEN "ready" ELSE "aborted"
    /\ constants' = <<>>
    /\ UNCHANGED <<args, call>>

Evaluate ==
    /\ pc = "ready"
    /\ \E current \in CurrentRows, step \in Steps(self.cycle_length) :
         \E next \in NextRows(current, fast_ark(self, step)) :
          \E op_flag \in OpFlags, result \in Accumulators :
            LET r == evaluate(self, current, next, step, op_flag, result)
            IN  call' = [op |-> "evaluate", current |-> current,
                         next |-> next, pos |-> step, op_flag |-> op_flag,
                         before |-> result, ark |-> fast_ark(self, step),
                         ok |-> r.ok, result |-> r.result]
    /\ pc' = "returned"
    /\ UNCHANGED <<args, constants, self>>

EvaluateAt ==
    /\ pc = "ready"
    /\ \E current \in CurrentRows, x \in XPoints(self) :
         \E next \in NextRows(current, slow_ark(self, x)) :
          \E op_flag \in OpFlags, result \in Accumulators :
            LET r == evaluate_at(self, current, next, x, op_flag, result)
            IN  call' = [op |-> "evaluate_at", current |-> current,
                         next |-> next, pos |-> x, op_flag |-> op_flag,
                         before |-> result, ark |-> slow_ark(self, x),
                         ok |-> r.ok, result |-> r.result]
    /\ pc' = "returned"
    /\ UNCHANGED <<args, constants, self>>

\* the caller takes the accumulator and is ready for its next query
Release ==
    /\ pc = "returned"
    /\ pc' = "ready"
    /\ call' = NoCall
    /\ UNCHANGED <<args, constants, self>>

Next ==
    \/ GetExtendedConstants
    \/ New
    \/ Evaluate
    \/ EvaluateAt
    \/ Release

Spec == Init /\ [][Next]_vars

\* ------------------------------------------------------------------------
\* Vocabulary of the properties
\* ------------------------------------------------------------------------
W == HASH_STATE_WIDTH

Returned == pc = "returned"

\* number of accumulator entries after the NUM_AUX_CONSTRAINTS offset
Region == Len(call.before) - NUM_AUX_CONSTRAINTS

\* what the call added to the accumulator entry of register i (source
\* index i - 1), i.e. to position NUM_AUX_CONSTRAINTS + i - 1
Contribution(i) ==
    sub(call.result[NUM_AUX_CONSTRAINTS + i],
        call.before[NUM_AUX_CONSTRAINTS + i])

\* next[0..W) is the image of current[0..W) under one round with the
\* constants of the call
Genuine ==
    /\ Len(call.current) >= W
    /\ Len(call.next) >= W
    /\ SubSeq(call.next, 1, W) = apply_round(SubSeq(call.current, 1, W), call.ark)

\* the hash constraint of position i as section 4.4 states it:
\* backward-computed minus forward-computed
HashConstraint(i) ==
    LET forward  == apply_mds(apply_sbox(
                        [j \in 1..W |-> add(call.current[j], call.ark[j])]))
        backward == apply_sbox(apply_inv_mds(SubSeq(call.next, 1, W)))
    IN  sub(sub(backward[i], call.ark[W + i]), forward[i])

\* the hash-state entries k at which next differs from the genuine image,
\* the other hash-state entries being genuine
PerturbedAt(k) ==
    LET g == apply_round(SubSeq(call.current, 1, W), call.ark)
    IN  /\ call.next[k] # g[k]
        /\ \A j \in 1..W : j # k => call.next[j] = g[j]

\* ------------------------------------------------------------------------
\* C1
\* ------------------------------------------------------------------------
\* C1: with op_flag = 1, the hash-state contributions of a call are all
\* zero if and only if next[0..W) is the genuine single-round image of
\* current[0..W) under the constants of the call; a genuine transition
\* leaves every hash-state entry the accumulator holds with a zero
\* contribution.
Thm_C1 ==
    (Returned /\ call.ok /\ call.op_flag = 1) =>
        /\ Genuine =>
              \A i \in 1..Min(Region, W) : Contribution(i) = 0
        /\ Region >= W =>
              ((\A i \in 1..W : Contribution(i) = 0) => Genuine)

Wit_C1 ==
    /\ Returned /\ call.ok /\ call.op_flag = 1
    /\ call.op = "evaluate" /\ call.pos = 3
    /\ Genuine /\ Region >= W
    /\ call.before[NUM_AUX_CONSTRAINTS + 1] # 0
    /\ \A i \in 1..W : Contribution(i) = 0

\* ------------------------------------------------------------------------
\* C2
\* ------------------------------------------------------------------------
\* C2: with op_flag = 0 a call of evaluate or evaluate_at leaves every
\* entry of the accumulator as it was, whatever the rows hold.
Thm_C2 ==
    (Returned /\ call.op_flag = 0) => call.result = call.before

Wit_C2 ==
    /\ Returned /\ call.ok /\ call.op_flag = 0
    /\ Region > W
    /\ ~Genuine
    /\ call.next[W + 1] # call.current[W + 1]
    /\ HashConstraint(1) # 0
    /\ call.before[NUM_AUX_CONSTRAINTS + 1] # 0

\* ------------------------------------------------------------------------
\* C3
\* ------------------------------------------------------------------------
\* the extended trace domain of the evaluator exists and the trace is a
\* whole number of hash cycles
HasDomain ==
    /\ self.trace_length % HASH_CYCLE_LENGTH = 0
    /\ (M - 1) % (self.trace_length
                    * (self.cycle_length \div HASH_CYCLE_LENGTH)) = 0

\* C3: evaluate at step s and evaluate_at at the point of the extended
\* trace domain that corresponds to step s produce the same accumulator
\* (and the same outcome) from the same rows, flag and accumulator.
Thm_C3 ==
    (Returned /\ HasDomain) =>
        /\ call.op = "evaluate" =>
              LET r == evaluate_at(self, call.current, call.next,
                                   XOfStep(self, call.pos), call.op_flag,
                                   call.before)
              IN  r.ok = call.ok /\ r.result = call.result
        /\ call.op = "evaluate_at" =>
              \A s \in Steps(self.cycle_length) :
                  XOfStep(self, s) = call.pos =>
                      LET r == evaluate(self, call.current, call.next, s,
                                        call.op_flag, call.before)
                      IN  r.ok = call.ok /\ r.result = call.result

Wit_C3 ==
    /\ Returned /\ HasDomain /\ call.ok
    /\ call.op = "evaluate" /\ call.pos = 3 /\ call.op_flag = 1
    /\ self.cycle_length = 2 * HASH_CYCLE_LENGTH
    /\ self.trace_length = 2 * HASH_CYCLE_LENGTH
    /\ Region >= W
    /\ call.result # call.before

\* ------------------------------------------------------------------------
\* C4
\* ------------------------------------------------------------------------
\* C4: a call that returns only adds to the accumulator: the entries below
\* NUM_AUX_CONSTRAINTS are unchanged, the entry of hash-state position i
\* becomes old + op_flag * (hash constraint i), the entry of a register
\* i >= HASH_STATE_WIDTH becomes old + op_flag * (next[i] - current[i]).
Thm_C4 ==
    (Returned /\ call.ok) =>
        /\ Len(call.result) = Len(call.before)
        /\ \A i \in 1..NUM_AUX_CONSTRAINTS : call.result[i] = call.before[i]
        /\ \A i \in 1..Min(Region, W) :
              call.result[NUM_AUX_CONSTRAINTS + i] =
                  add(call.before[NUM_AUX_CONSTRAINTS + i],
                      mul(call.op_flag, HashConstraint(i)))
        /\ \A i \in (W + 1)..Region :
              call.result[NUM_AUX_CONSTRAINTS + i] =
                  add(call.before[NUM_AUX_CONSTRAINTS + i],
                      mul(call.op_flag, sub(call.next[i], call.current[i])))

Wit_C4 ==
    /\ Returned /\ call.ok /\ call.op_flag = 2
    /\ Region > W
    /\ HashConstraint(1) # 0
    /\ call.next[W + 1] # call.current[W + 1]
    /\ call.before[NUM_AUX_CONSTRAINTS + 1] # 0
    /\ call.before[NUM_AUX_CONSTRAINTS + W + 1] # 0

\* ------------------------------------------------------------------------
\* C5
\* ------------------------------------------------------------------------
\* the case of C5: a genuine transition with the hash-state entry k of the
\* next row changed, op_flag = 1, every hash-state entry in the accumulator
PerturbedCall(k) ==
    /\ Returned /\ call.ok /\ call.op_flag = 1
    /\ Region >= W
    /\ Len(call.next) >= W
    /\ PerturbedAt(k)

\* C5 as stated: perturbing hash-state entry k of the next row of a
\* genuine transition makes the contribution of position k nonzero and
\* leaves the contributions of the other hash-state positions zero.
Orig_C5 ==
    \A k \in 1..W :
        PerturbedCall(k) =>
            \A i \in 1..W : (Contribution(i) # 0) <=> (i = k)

\* C5 as amended: perturbing hash-state entry k of the next row of a
\* genuine transition makes nonzero the contribution of every hash-state
\* position i whose row of the inverse MDS matrix has a nonzero entry in
\* column k; for an MDS matrix that is every hash-state position.
Thm_C5 ==
    \A k \in 1..W :
        PerturbedCall(k) =>
            \A i \in 1..W : (Contribution(i) # 0) <=> (INV_MDS[i][k] # 0)

Wit_C5 ==
    /\ PerturbedCall(1)
    /\ call.op = "evaluate_at"
    /\ \A i \in 1..W : Contribution(i) # 0

\* ------------------------------------------------------------------------
\* C6
\* ------------------------------------------------------------------------
\* C6: with op_flag = 1 the contributions to the auxiliary registers the
\* accumulator covers are all zero if and only if next equals current at
\* each of them; the contribution of register i is next[i] - current[i],
\* whatever the hash-state entries and the round constants are.
Thm_C6 ==
    (Returned /\ call.ok /\ call.op_flag = 1) =>
        /\ (\A i \in (W + 1)..Region : Contribution(i) = 0)
              <=> (\A i \in (W + 1)..Region : call.next[i] = call.current[i])
        /\ \A i \in (W + 1)..Region :
              Contribution(i) = sub(call.next[i], call.current[i])

Wit_C6 ==
    /\ Returned /\ call.ok /\ call.op_flag = 1
    /\ Region > W
    /\ call.next[W + 1] # call.current[W + 1]
    /\ Contribution(W + 1) # 0
    /\ Genuine

\* ------------------------------------------------------------------------
\* C7
\* ------------------------------------------------------------------------
\* the evaluations handed to new have exactly 2 * HASH_STATE_WIDTH columns
\* of HASH_CYCLE_LENGTH * extension_factor rows
ExactShape ==
    /\ Len(constants[2]) = 2 * HASH_STATE_WIDTH
    /\ \A j \in 1..Len(constants[2]) :
          Len(constants[2][j]) = HASH_CYCLE_LENGTH * args.extension_factor

\* C7 as stated: new aborts unless the round-constant evaluations have
\* exactly 2 * HASH_STATE_WIDTH columns and exactly
\* HASH_CYCLE_LENGTH * extension_factor rows.
Orig_C7 ==
    [][(pc = "constructing" /\ ~ExactShape) => pc' = "aborted"]_vars

\* ------------------------------------------------------------------------
\* C8
\* ------------------------------------------------------------------------
\* C8 as stated: with a trace length that is not a multiple of
\* HASH_CYCLE_LENGTH, new fails or else the evaluate_at call fails.
Orig_C8 ==
    (Returned /\ call.op = "evaluate_at"
        /\ self.trace_length % HASH_CYCLE_LENGTH # 0) => ~call.ok

\* ------------------------------------------------------------------------
\* C9
\* ------------------------------------------------------------------------
\* C9 as stated: a call aborts when the accumulator holds fewer than
\* HASH_STATE_WIDTH entries after the offset, or when the accumulator
\* region after the offset and the rows differ in length.  eval_hash bounds
\* its loop by min(result.len(), HASH_STATE_WIDTH) and eval_rest by
\* result.len(), so a short region is truncated to and the call returns.
Orig_C9 ==
    (Returned /\ (\/ Region < W
                  \/ Region # Len(call.current)
                  \/ Region # Len(call.next))) => ~call.ok

\* ------------------------------------------------------------------------
\* C10
\* ------------------------------------------------------------------------
\* C10: the constants evaluate selects for step s are a row of the table and
\* are the constants it selects for step s + cycle_length, so evaluate at
\* step s + cycle_length yields the accumulator it yields at step s.
Thm_C10 ==
    (Returned /\ call.op = "evaluate") =>
        /\ \E r \in 1..self.cycle_length : call.ark = self.ark_values[r]
        /\ call.ark = fast_ark(self, call.pos + self.cycle_length)
        /\ LET r == evaluate(self, call.current, call.next,
                             call.pos + self.cycle_length, call.op_flag,
                             call.before)
           IN  r.ok = call.ok /\ r.result = call.result

Wit_C10 ==
    /\ Returned /\ call.ok /\ call.op = "evaluate"
    /\ call.op_flag = 1
    /\ self.cycle_length = 2 * HASH_CYCLE_LENGTH
    /\ call.pos >= self.cycle_length
    /\ Region >= W
    /\ call.result # call.before

====
